---- MODULE Spec2Model ----
(***************************************************************************)
(* Model of the task persistence store of queuerManager                    *)
(* (src/database/dbTask.go), of the callers that page through it and of    *)
(* the handlers and the start-up code that call it.                        *)
(*                                                                         *)
(* Strings are sequences of one-character strings, so that the ILIKE       *)
(* pattern match of the search query is computed character by character.   *)
(* A Go slice is [isNil, elems]; a stored JSONB document is [kind, elems]. *)
(***************************************************************************)
EXTENDS Integers, Sequences, FiniteSets, TLC

\* ------------------------------------------------------------------ bounds
\* Number of values the SERIAL sequence of column id may hand out.
MaxId == 3
\* Number of times the database clock (NOW()) advances.
MaxNow == 1
\* Largest page size a caller asks for (the handlers accept 1..100).
MaxPage == 2
\* Number of callers that run a call at the same time.
NumCallers == 2
\* Number of rows stored while parameter columns are overwritten from outside.
MaxRows == 2
\* Number of parameter columns overwritten from outside.
MaxCorrupt == 1
\* Number of jobs the queue takes.
MaxJobs == 2
\* Largest number of RIDs in a delete request and of entries in a task file.
MaxBatch == 2

VARIABLES
    task,      \* the rows of table task
    seq,       \* last value handed out by the SERIAL sequence of task.id
    now,       \* the database clock read by NOW()
    last,      \* the last completed store call: operation, arguments, result
    inputOf,   \* history: rid -> the arguments of the Insert that made the row,
               \* kept until the row is updated or deleted
    pager,     \* a caller paging through a list operation: its pages so far
    calls,     \* the calls of concurrent callers, one per caller
    hist,      \* history: the sequential ids returned by successful Inserts in
               \* order, the external ids deleted, and the last change of a key
               \* by an Update while no write has followed it
    exists,    \* whether table task (with its sequence and indexes) exists
    jobs       \* the task names of the jobs submitted to the queue, in order

vars == <<task, seq, now, last, inputOf, pager, calls, hist, exists, jobs>>

\* ------------------------------------------------------------- Go values
\* []vm.Validation: a nil slice, or a slice of validations (opaque here).
NilSlice == [isNil |-> TRUE, elems |-> <<>>]
Slice(es) == [isNil |-> FALSE, elems |-> es]

\* error == nil
NoError == [trace |-> "", cause |-> ""]
\* helper.NewError(trace, cause)
NewError(trace, cause) == [trace |-> trace, cause |-> cause]

\* encoding/json.Marshal of a []vm.Validation: a nil slice encodes as null.
Marshal(s) ==
    IF s.isNil THEN [kind |-> "null", elems |-> <<>>]
    ELSE [kind |-> "array", elems |-> s.elems]

\* encoding/json.Unmarshal(doc, &into) for into of type []vm.Validation: a JSON
\* null leaves the slice as it was, an array replaces it, and any other
\* document is an error.
Unmarshal(doc, into) ==
    CASE doc.kind = "null" -> [err |-> FALSE, val |-> into]
      [] doc.kind = "array" -> [err |-> FALSE, val |-> Slice(doc.elems)]
      [] OTHER -> [err |-> TRUE, val |-> into]

\* The parameter columns scanned into the wrong fields.
DecodeStrictSwapped(row) ==
    LET a == Unmarshal(row.input_parameters_keyed, NilSlice)
        b == Unmarshal(row.input_parameters, NilSlice)
        c == Unmarshal(row.output_parameters, NilSlice)
    IN [err |-> IF a.err \/ b.err \/ c.err
                THEN NewError("unmarshal input_parameters", "json") ELSE NoError,
        task |-> [ID |-> row.id, RID |-> row.rid, Key |-> row.key,
                  Name |-> row.name, Description |-> row.description,
                  InputParameters |-> a.val,
                  InputParametersKeyed |-> b.val,
                  OutputParameters |-> c.val,
                  CreatedAt |-> row.created_at, UpdatedAt |-> row.updated_at]]

\* The three parameter columns of a row decoded into a fresh model.Task, as the
\* single-row operations do: the first failure is returned.
DecodeStrict(row) ==
    LET a == Unmarshal(row.input_parameters, NilSlice)
        b == Unmarshal(row.input_parameters_keyed, NilSlice)
        c == Unmarshal(row.output_parameters, NilSlice)
        err == IF a.err THEN NewError("unmarshal input_parameters", "json")
               ELSE IF b.err THEN NewError("unmarshal input_parameters_keyed", "json")
               ELSE IF c.err THEN NewError("unmarshal output_parameters", "json")
               ELSE NoError
    IN [err |-> err,
        task |-> [ID |-> row.id, RID |-> row.rid, Key |-> row.key,
                  Name |-> row.name, Description |-> row.description,
                  InputParameters |-> a.val,
                  InputParametersKeyed |-> b.val,
                  OutputParameters |-> c.val,
                  CreatedAt |-> row.created_at, UpdatedAt |-> row.updated_at]]

\* A list operation that gives up on the whole row: when one field fails to
\* decode all three become empty.
DecodeLenientAllOrNothing(row) ==
    LET a == Unmarshal(row.input_parameters, NilSlice)
        b == Unmarshal(row.input_parameters_keyed, NilSlice)
        c == Unmarshal(row.output_parameters, NilSlice)
        bad == a.err \/ b.err \/ c.err
    IN [ID |-> row.id, RID |-> row.rid, Key |-> row.key,
        Name |-> row.name, Description |-> row.description,
        InputParameters |-> IF bad THEN Slice(<<>>) ELSE a.val,
        InputParametersKeyed |-> IF bad THEN Slice(<<>>) ELSE b.val,
        OutputParameters |-> IF bad THEN Slice(<<>>) ELSE c.val,
        CreatedAt |-> row.created_at, UpdatedAt |-> row.updated_at]

\* As the list operations do: a field that fails to decode becomes an empty,
\* non-nil slice and the row is kept.
DecodeLenient(row) ==
    LET a == Unmarshal(row.input_parameters, NilSlice)
        b == Unmarshal(row.input_parameters_keyed, NilSlice)
        c == Unmarshal(row.output_parameters, NilSlice)
    IN [ID |-> row.id, RID |-> row.rid, Key |-> row.key,
        Name |-> row.name, Description |-> row.description,
        InputParameters |-> IF a.err THEN Slice(<<>>) ELSE a.val,
        InputParametersKeyed |-> IF b.err THEN Slice(<<>>) ELSE b.val,
        OutputParameters |-> IF c.err THEN Slice(<<>>) ELSE c.val,
        CreatedAt |-> row.created_at, UpdatedAt |-> row.updated_at]

\* ------------------------------------------------------------ the table
\* A table without the UNIQUE constraint on key.
KeyNeverTaken(tbl, key, self) == FALSE

\* UNIQUE (key): a row other than `self` already holds the key.
KeyTaken(tbl, key, self) == \E r \in tbl : r.key = key /\ r.id # self

\* A row whose updated_at column has no DEFAULT NOW(): it starts at the epoch.
NewRowEpochUpdated(id, clock, t) ==
    [id |-> id, rid |-> id, key |-> t.Key, name |-> t.Name,
     description |-> t.Description,
     input_parameters |-> Marshal(t.InputParameters),
     input_parameters_keyed |-> Marshal(t.InputParametersKeyed),
     output_parameters |-> Marshal(t.OutputParameters),
     created_at |-> clock, updated_at |-> 0]

\* The row an INSERT makes: id from the sequence, rid generated (one fresh
\* external id per sequence value), the six columns given, and both
\* timestamps from the clock.
NewRow(id, clock, t) ==
    [id |-> id, rid |-> id, key |-> t.Key, name |-> t.Name,
     description |-> t.Description,
     input_parameters |-> Marshal(t.InputParameters),
     input_parameters_keyed |-> Marshal(t.InputParametersKeyed),
     output_parameters |-> Marshal(t.OutputParameters),
     created_at |-> clock, updated_at |-> clock]

\* INSERT ... ON CONFLICT (key) DO UPDATE: the row holding the key is replaced.
InsertStmtUpsert(tbl, sq, clock, t) ==
    LET id == sq + 1
        row == NewRow(id, clock, t)
    IN [task |-> {r \in tbl : r.key # t.Key} \cup {row}, seq |-> id,
        ok |-> TRUE, row |-> row]

\* An id computed as SELECT MAX(id) + 1 instead of taken from the sequence.
InsertStmtMaxPlusOne(tbl, sq, clock, t) ==
    LET top == IF tbl = {} THEN 0
               ELSE (CHOOSE r \in tbl : \A o \in tbl : r.id >= o.id).id
        row == NewRow(top + 1, clock, t)
    IN IF KeyTaken(tbl, t.Key, 0)
       THEN [task |-> tbl, seq |-> sq + 1, ok |-> FALSE, row |-> row]
       ELSE [task |-> tbl \cup {row}, seq |-> sq + 1, ok |-> TRUE, row |-> row]

\* INSERT INTO task (...) VALUES (...) RETURNING ...: the id default
\* nextval() is taken before the unique index is checked, so a rejected
\* insert still uses up an id.
InsertStmt(tbl, sq, clock, t) ==
    LET id == sq + 1
        row == NewRow(id, clock, t)
    IN IF KeyTaken(tbl, t.Key, 0)
       THEN [task |-> tbl, seq |-> id, ok |-> FALSE, row |-> row]
       ELSE [task |-> tbl \cup {row}, seq |-> id, ok |-> TRUE, row |-> row]

\* TaskDBHandler.InsertTask
InsertTaskCall(tbl, sq, clock, t) ==
    LET s == InsertStmt(tbl, sq, clock, t)
        d == DecodeStrict(s.row)
    IN IF ~s.ok
       THEN [task |-> s.task, seq |-> s.seq,
             err |-> NewError("insert task", "unique_violation"), out |-> <<>>]
       ELSE [task |-> s.task, seq |-> s.seq, err |-> d.err,
             out |-> IF d.err = NoError THEN <<d.task>> ELSE <<>>]

\* An UPDATE that also sets created_at = NOW().
UpdateStmtTouchesCreated(tbl, clock, t) ==
    LET hit == {r \in tbl : r.rid = t.RID}
    IN IF hit = {}
       THEN [task |-> tbl, found |-> FALSE, ok |-> TRUE, rows |-> {}]
       ELSE LET old == CHOOSE r \in hit : TRUE
                new == [old EXCEPT
                          !.key = t.Key, !.name = t.Name,
                          !.description = t.Description,
                          !.input_parameters = Marshal(t.InputParameters),
                          !.input_parameters_keyed = Marshal(t.InputParametersKeyed),
                          !.output_parameters = Marshal(t.OutputParameters),
                          !.created_at = clock,
                          !.updated_at = clock]
            IN IF KeyTaken(tbl, t.Key, old.id)
               THEN [task |-> tbl, found |-> TRUE, ok |-> FALSE, rows |-> {}]
               ELSE [task |-> (tbl \ {old}) \cup {new}, found |-> TRUE,
                     ok |-> TRUE, rows |-> {new}]

\* An UPDATE whose SET list lacks key = $1.
UpdateStmtKeepsKey(tbl, clock, t) ==
    LET hit == {r \in tbl : r.rid = t.RID}
    IN IF hit = {}
       THEN [task |-> tbl, found |-> FALSE, ok |-> TRUE, rows |-> {}]
       ELSE LET old == CHOOSE r \in hit : TRUE
                new == [old EXCEPT
                          !.name = t.Name,
                          !.description = t.Description,
                          !.input_parameters = Marshal(t.InputParameters),
                          !.input_parameters_keyed = Marshal(t.InputParametersKeyed),
                          !.output_parameters = Marshal(t.OutputParameters),
                          !.updated_at = clock]
            IN [task |-> (tbl \ {old}) \cup {new}, found |-> TRUE,
                ok |-> TRUE, rows |-> {new}]

\* UPDATE task SET ... , updated_at = NOW() WHERE rid = $7 RETURNING ...
\* found: a row matched; ok: the statement went through.
UpdateStmt(tbl, clock, t) ==
    LET hit == {r \in tbl : r.rid = t.RID}
    IN IF hit = {}
       THEN [task |-> tbl, found |-> FALSE, ok |-> TRUE, rows |-> {}]
       ELSE LET old == CHOOSE r \in hit : TRUE
                new == [old EXCEPT
                          !.key = t.Key, !.name = t.Name,
                          !.description = t.Description,
                          !.input_parameters = Marshal(t.InputParameters),
                          !.input_parameters_keyed = Marshal(t.InputParametersKeyed),
                          !.output_parameters = Marshal(t.OutputParameters),
                          !.updated_at = clock]
            IN IF KeyTaken(tbl, t.Key, old.id)
               THEN [task |-> tbl, found |-> TRUE, ok |-> FALSE, rows |-> {}]
               ELSE [task |-> (tbl \ {old}) \cup {new}, found |-> TRUE,
                     ok |-> TRUE, rows |-> {new}]

\* UpdateTask without the sql.ErrNoRows case: every failure is "update task".
UpdateTaskCallNoRowsGeneric(tbl, clock, t) ==
    LET s == UpdateStmt(tbl, clock, t)
    IN IF ~s.ok \/ ~s.found
       THEN [task |-> s.task, err |-> NewError("update task", "no rows in result set"),
             out |-> <<>>]
       ELSE LET d == DecodeStrict(CHOOSE r \in s.rows : TRUE)
            IN [task |-> s.task, err |-> d.err,
                out |-> IF d.err = NoError THEN <<d.task>> ELSE <<>>]

\* TaskDBHandler.UpdateTask
UpdateTaskCall(tbl, clock, t) ==
    LET s == UpdateStmt(tbl, clock, t)
    IN IF ~s.ok
       THEN [task |-> s.task, err |-> NewError("update task", "unique_violation"),
             out |-> <<>>]
       ELSE IF ~s.found
       THEN [task |-> s.task, err |-> NewError("task not found", "no task with rid"),
             out |-> <<>>]
       ELSE LET d == DecodeStrict(CHOOSE r \in s.rows : TRUE)
            IN [task |-> s.task, err |-> d.err,
                out |-> IF d.err = NoError THEN <<d.task>> ELSE <<>>]

\* DELETE FROM task WHERE rid = $1, with the number of rows affected.
DeleteStmt(tbl, rid) ==
    LET hit == {r \in tbl : r.rid = rid}
    IN [task |-> tbl \ hit, rowsAffected |-> Cardinality(hit)]

\* DeleteTask without the look at RowsAffected.
DeleteTaskCallIgnoresCount(tbl, rid) ==
    [task |-> DeleteStmt(tbl, rid).task, err |-> NoError]

\* TaskDBHandler.DeleteTask
DeleteTaskCall(tbl, rid) ==
    LET s == DeleteStmt(tbl, rid)
    IN [task |-> s.task,
        err |-> IF s.rowsAffected = 0
                THEN NewError("task not found", "no task with rid")
                ELSE NoError]

\* Single-row reads that decode as the list operations do.
SelectOneLenient(hit, cause) ==
    IF hit = {}
    THEN [err |-> NewError("task not found", cause), out |-> <<>>]
    ELSE [err |-> NoError, out |-> <<DecodeLenient(CHOOSE r \in hit : TRUE)>>]

\* The single-row reads: sql.ErrNoRows becomes "task not found".
SelectOne(hit, cause) ==
    IF hit = {}
    THEN [err |-> NewError("task not found", cause), out |-> <<>>]
    ELSE LET d == DecodeStrict(CHOOSE r \in hit : TRUE)
         IN [err |-> d.err, out |-> IF d.err = NoError THEN <<d.task>> ELSE <<>>]

\* TaskDBHandler.SelectTask
SelectTaskCall(tbl, rid) ==
    SelectOne({r \in tbl : r.rid = rid}, "no task with rid")

\* TaskDBHandler.SelectTaskByKey
SelectTaskByKeyCall(tbl, key) ==
    SelectOne({r \in tbl : r.key = key}, "no task with key")

Min(a, b) == IF a < b THEN a ELSE b

\* ORDER BY id DESC
RECURSIVE SortByIdDesc(_)
SortByIdDesc(S) ==
    IF S = {} THEN <<>>
    ELSE LET m == CHOOSE r \in S : \A o \in S : r.id >= o.id
         IN <<m>> \o SortByIdDesc(S \ {m})

\* ORDER BY id ASC
RECURSIVE SortById(_)
SortById(S) ==
    IF S = {} THEN <<>>
    ELSE LET m == CHOOSE r \in S : \A o \in S : r.id <= o.id
         IN <<m>> \o SortById(S \ {m})

\* LIMIT n
Limit(sq, n) == SubSeq(sq, 1, Min(n, Len(sq)))

\* WHERE id >= $1
AfterIdInclusive(tbl, lastID) == {r \in tbl : r.id >= lastID}

\* WHERE id > $1
AfterId(tbl, lastID) == {r \in tbl : r.id > lastID}

\* TaskDBHandler.SelectAllTasks
SelectAllTasksCall(tbl, lastID, entries) ==
    LET rows == Limit(SortById(AfterId(tbl, lastID)), entries)
    IN [i \in 1..Len(rows) |-> DecodeLenient(rows[i])]

\* ---------------------------------------------------------------- search
\* ILIKE folds case.
Lower(c) == CASE c = "A" -> "a" [] c = "B" -> "b" [] OTHER -> c

\* s ILIKE p: % matches any run of characters, _ any one character, and a
\* backslash takes the next pattern character literally.
RECURSIVE ILike(_, _)
ILike(s, p) ==
    IF p = <<>> THEN s = <<>>
    ELSE IF p[1] = "\\"
    THEN /\ Len(p) >= 2
         /\ s # <<>>
         /\ Lower(s[1]) = Lower(p[2])
         /\ ILike(Tail(s), Tail(Tail(p)))
    ELSE IF p[1] = "%"
    THEN ILike(s, Tail(p)) \/ (s # <<>> /\ ILike(Tail(s), p))
    ELSE IF p[1] = "_"
    THEN s # <<>> /\ ILike(Tail(s), Tail(p))
    ELSE /\ s # <<>>
         /\ Lower(s[1]) = Lower(p[1])
         /\ ILike(Tail(s), Tail(p))

Digits == <<"1", "2", "3", "4", "5", "6", "7", "8", "9">>

\* rid::text: the text form of the UUID (hyphens and digits here).
RidText(rid) == <<"-", Digits[rid]>>

\* '%' || $1 || '%'
Pattern(search) == <<"%">> \o search \o <<"%">>

\* The first conjunct of the WHERE clause of the search.
SearchMatch(r, search) ==
    \/ ILike(RidText(r.rid), Pattern(search))
    \/ ILike(r.key, Pattern(search))
    \/ ILike(r.name, Pattern(search))
    \/ ILike(r.description, Pattern(search))

\* created_at < (cursor row's created_at): the comparison operator.
Earlier(a, b) == a < b

\* The second conjunct: 0 = $2 OR created_at < (SELECT t.created_at FROM task
\* AS t WHERE t.id = $2); with no such row the subquery is NULL and the
\* comparison is not true.
BeforeCursorMissingIsStart(tbl, r, lastID) ==
    \/ lastID = 0
    \/ ~\E t \in tbl : t.id = lastID
    \/ \E t \in tbl : t.id = lastID /\ Earlier(r.created_at, t.created_at)

BeforeCursor(tbl, r, lastID) ==
    \/ lastID = 0
    \/ \E t \in tbl : t.id = lastID /\ Earlier(r.created_at, t.created_at)

\* ORDER BY created_at DESC: every order of S that never ascends; rows with the
\* same created_at come in any order.
OrdersDesc(S) ==
    LET n == Cardinality(S)
    IN {sq \in [1..n -> S] :
          /\ \A i, j \in 1..n : i # j => sq[i] # sq[j]
          /\ \A i, j \in 1..n : i < j => sq[i].created_at >= sq[j].created_at}

\* TaskDBHandler.SelectAllTasksBySearch: the results the query can give.
SelectAllTasksBySearchCall(tbl, search, lastID, entries) ==
    LET S == {r \in tbl : SearchMatch(r, search) /\ BeforeCursor(tbl, r, lastID)}
    IN {[i \in 1..Min(entries, Len(sq)) |-> DecodeLenient(sq[i])] : sq \in OrdersDesc(S)}

\* ------------------------------------------------------------- inputs
V1 == "v1"
V2 == "v2"

\* The arguments of Insert and Update (key, name, description, parameters).
TaskInputs ==
    { [Key |-> <<"a">>, Name |-> <<"A">>, Description |-> <<>>,
       InputParameters |-> NilSlice, InputParametersKeyed |-> NilSlice,
       OutputParameters |-> NilSlice],
      [Key |-> <<"a">>, Name |-> <<"b">>, Description |-> <<"a", "b">>,
       InputParameters |-> Slice(<<V1, V2>>), InputParametersKeyed |-> Slice(<<>>),
       OutputParameters |-> Slice(<<V2>>)],
      [Key |-> <<"b">>, Name |-> <<"A", "b">>, Description |-> <<"B">>,
       InputParameters |-> Slice(<<V1>>), InputParametersKeyed |-> Slice(<<V2>>),
       OutputParameters |-> NilSlice] }

\* Tasks with four different keys, to fill the pages of the list operations.
PlainTask(key, name, description) ==
    [Key |-> key, Name |-> name, Description |-> description,
     InputParameters |-> NilSlice, InputParametersKeyed |-> Slice(<<V1>>),
     OutputParameters |-> Slice(<<>>)]

PageInputs ==
    { PlainTask(<<"a">>, <<"A">>, <<>>),
      PlainTask(<<"b">>, <<"b">>, <<"B", "a">>),
      PlainTask(<<"a", "b">>, <<>>, <<"b">>),
      PlainTask(<<"B", "b">>, <<"b">>, <<>>) }

\* The arguments of Update: a rid and the fields above.
WithRID(t, rid) ==
    [RID |-> rid, Key |-> t.Key, Name |-> t.Name, Description |-> t.Description,
     InputParameters |-> t.InputParameters,
     InputParametersKeyed |-> t.InputParametersKeyed,
     OutputParameters |-> t.OutputParameters]

\* External ids a caller may name: those handed out and one never handed out.
Rids == 1..(MaxId + 1)
KeyInputs == {t.Key : t \in TaskInputs}
Callers == 1..NumCallers
SearchInputs == {<<"a">>, <<"A", "b">>, <<"_">>}

\* ------------------------------------------------------------- actions
Init ==
    /\ task = {}
    /\ seq = 0
    /\ now = 0
    /\ last = [op |-> "none", err |-> NoError, out |-> <<>>]
    /\ inputOf = <<>>
    /\ pager = [pc |-> "idle"]
    /\ calls = [c \in Callers |-> [pc |-> "idle"]]
    /\ hist = [ids |-> <<>>, deleted |-> {}, moved |-> <<>>]
    /\ exists = TRUE
    /\ jobs = <<>>

\* The clock of the database server advances.
Tick ==
    /\ now < MaxNow
    /\ now' = now + 1
    /\ UNCHANGED <<task, seq, last, inputOf, pager, calls, hist, exists, jobs>>

Forget(f, rid) == [x \in DOMAIN f \ {rid} |-> f[x]]

\* The rows a traversal is after: all of them, or those its query matches.
Wanted(pg, r) == pg.kind = "list" \/ SearchMatch(r, pg.search)

\* History kept for a traversal under way: whether the table was written since
\* its first page, and which of the rows wanted at its start are still there.
AfterWrite(pg, old, new) ==
    IF pg.pc = "idle" \/ new = old THEN pg
    ELSE [pg EXCEPT
            !.wrote = TRUE,
            !.tracked = IF pg.pc = "paging"
                        THEN {id \in @ : \E r \in new : r.id = id /\ Wanted(pg, r)}
                        ELSE @]

\* The history after an Insert, an Update and a Delete that returned c.
Inserted(h, c) ==
    IF c.err # NoError THEN h
    ELSE [h EXCEPT !.ids = Append(@, c.out[1].ID), !.moved = <<>>]

Updated(h, tbl, t, c) ==
    IF c.err # NoError THEN h
    ELSE LET hit == {r \in tbl : r.rid = t.RID /\ r.key # t.Key}
         IN [h EXCEPT !.moved = IF hit = {} THEN <<>>
                                ELSE <<[rid |-> t.RID,
                                        from |-> (CHOOSE r \in hit : TRUE).key,
                                        to |-> t.Key]>>]

Deleted(h, rid, c) ==
    IF c.err # NoError THEN h
    ELSE [h EXCEPT !.deleted = @ \cup {rid}, !.moved = <<>>]

InsertTaskOf(t) ==
    /\ seq < MaxId
    /\ LET c == InsertTaskCall(task, seq, now, t)
       IN /\ task' = c.task
          /\ seq' = c.seq
          /\ last' = [op |-> "InsertTask", arg |-> t, err |-> c.err, out |-> c.out]
          /\ inputOf' = IF c.err = NoError
                        THEN (c.out[1].RID :> t) @@ inputOf
                        ELSE inputOf
          /\ pager' = AfterWrite(pager, task, c.task)
          /\ hist' = Inserted(hist, c)
    /\ UNCHANGED <<now, calls, exists, jobs>>

UpdateTaskOf(t) ==
    LET c == UpdateTaskCall(task, now, t)
    IN /\ task' = c.task
       /\ last' = [op |-> "UpdateTask", arg |-> t, err |-> c.err, out |-> c.out]
       /\ inputOf' = IF c.err = NoError THEN Forget(inputOf, t.RID) ELSE inputOf
       /\ pager' = AfterWrite(pager, task, c.task)
       /\ hist' = Updated(hist, task, t, c)
       /\ UNCHANGED <<seq, now, calls, exists, jobs>>

DeleteTaskOf(rid) ==
    LET c == DeleteTaskCall(task, rid)
    IN /\ task' = c.task
       /\ last' = [op |-> "DeleteTask", arg |-> rid, err |-> c.err, out |-> <<>>]
       /\ inputOf' = IF c.err = NoError THEN Forget(inputOf, rid) ELSE inputOf
       /\ pager' = AfterWrite(pager, task, c.task)
       /\ hist' = Deleted(hist, rid, c)
       /\ UNCHANGED <<seq, now, calls, exists, jobs>>

InsertTask == \E t \in TaskInputs : InsertTaskOf(t)

UpdateTask == \E t \in TaskInputs, rid \in Rids : UpdateTaskOf(WithRID(t, rid))

DeleteTask == \E rid \in Rids : DeleteTaskOf(rid)

SelectTask ==
    \E rid \in Rids :
        LET c == SelectTaskCall(task, rid)
        IN /\ last' = [op |-> "SelectTask", arg |-> rid, err |-> c.err, out |-> c.out]
           /\ UNCHANGED <<task, seq, now, inputOf, pager, calls, hist, exists, jobs>>

SelectTaskByKey ==
    \E key \in KeyInputs :
        LET c == SelectTaskByKeyCall(task, key)
        IN /\ last' = [op |-> "SelectTaskByKey", arg |-> key, err |-> c.err,
                       out |-> c.out]
           /\ UNCHANGED <<task, seq, now, inputOf, pager, calls, hist, exists, jobs>>

SelectAllTasksOf(lastID, entries) ==
    /\ last' = [op |-> "SelectAllTasks",
                arg |-> [lastID |-> lastID, entries |-> entries],
                err |-> NoError,
                out |-> SelectAllTasksCall(task, lastID, entries)]
    /\ UNCHANGED <<task, seq, now, inputOf, pager, calls, hist, exists, jobs>>

SelectAllTasksBySearchOf(search, lastID, entries) ==
    \E res \in SelectAllTasksBySearchCall(task, search, lastID, entries) :
        /\ last' = [op |-> "SelectAllTasksBySearch",
                    arg |-> [search |-> search, lastID |-> lastID,
                             entries |-> entries],
                    err |-> NoError, out |-> res]
        /\ UNCHANGED <<task, seq, now, inputOf, pager, calls, hist, exists, jobs>>

SelectAllTasks ==
    \E lastID \in 0..MaxId, entries \in 1..MaxPage :
        SelectAllTasksOf(lastID, entries)

SelectAllTasksBySearch ==
    \E search \in SearchInputs, lastID \in 0..MaxId, entries \in 1..MaxPage :
        SelectAllTasksBySearchOf(search, lastID, entries)

\* ------------------------------------------------- undecodable columns
\* A JSONB document that is no array of validations and not null, such as {}.
\* The columns are JSONB NOT NULL and take any document; the store itself only
\* writes what Marshal gives.
NotArray == [kind |-> "object", elems |-> <<>>]

Columns == {"input_parameters", "input_parameters_keyed", "output_parameters"}

Corrupted(tbl) ==
    Cardinality({x \in tbl \X Columns : x[1][x[2]] = NotArray})

\* Another client of the database overwrites one parameter column of one row.
\* The result of the last call does not describe the table any more.
Corrupt ==
    \E r \in task, col \in Columns :
        /\ r[col] # NotArray
        /\ Corrupted(task) < MaxCorrupt
        /\ task' = (task \ {r}) \cup {[r EXCEPT ![col] = NotArray]}
        /\ last' = [op |-> "none", err |-> NoError, out |-> <<>>]
        /\ inputOf' = Forget(inputOf, r.rid)
        /\ pager' = AfterWrite(pager, task, task')
        /\ hist' = [hist EXCEPT !.moved = <<>>]
        /\ UNCHANGED <<seq, now, calls, exists, jobs>>

\* Rows with different keys are inserted, MaxRows at most.
DecodeInsert ==
    \E t \in PageInputs :
        /\ Cardinality(task) < MaxRows
        /\ ~KeyTaken(task, t.Key, 0)
        /\ InsertTaskOf(t)

\* The first page of the two list operations.
FirstList == \E entries \in 1..MaxPage : SelectAllTasksOf(0, entries)

FirstSearch ==
    \E search \in SearchInputs, entries \in 1..MaxPage :
        SelectAllTasksBySearchOf(search, 0, entries)

\* A page of a search asked for with a cursor, the sequential id of a row seen
\* before.
SearchAfter ==
    \E search \in SearchInputs, lastID \in 1..MaxId :
        SelectAllTasksBySearchOf(search, lastID, MaxPage)

\* ------------------------------------------------------------- paging
\* One page of the traversal pg, asked for with the cursor lastID.
Fetch(pg, tbl, lastID) ==
    IF pg.kind = "list"
    THEN {SelectAllTasksCall(tbl, lastID, pg.n)}
    ELSE SelectAllTasksBySearchCall(tbl, pg.search, lastID, pg.n)

\* The first page: the cursor is 0.
PageStart(kind, search, n) ==
    /\ pager.pc = "idle"
    /\ LET pg == [kind |-> kind, search |-> search, n |-> n]
       IN \E res \in Fetch(pg, task, 0) :
            pager' = [pc |-> IF res = <<>> THEN "done" ELSE "paging",
                      kind |-> kind, search |-> search, n |-> n,
                      pages |-> <<res>>,
                      tracked |-> {r.id : r \in {x \in task : Wanted(pg, x)}},
                      wrote |-> FALSE]
    /\ UNCHANGED <<task, seq, now, last, inputOf, calls, hist, exists, jobs>>

\* The next page: the cursor is the sequential_id of the last row seen.  An
\* empty page ends the traversal.
PageNext ==
    /\ pager.pc = "paging"
    /\ LET prev == pager.pages[Len(pager.pages)]
           lastID == prev[Len(prev)].ID
       IN \E res \in Fetch(pager, task, lastID) :
            pager' = [pager EXCEPT !.pages = Append(@, res),
                                   !.pc = IF res = <<>> THEN "done" ELSE "paging"]
    /\ UNCHANGED <<task, seq, now, last, inputOf, calls, hist, exists, jobs>>

ListStart == \E n \in 1..MaxPage : PageStart("list", <<>>, n)

SearchStart == \E search \in SearchInputs, n \in 1..MaxPage : PageStart("search", search, n)

PageInsert == \E t \in PageInputs : InsertTaskOf(t)

\* --------------------------------------------------- concurrent inserts
\* The key checked by the caller when the call begins, not by the table.
ExecInsertCheckThenAct(tbl, sq, clock, call) ==
    IF call.free
    THEN LET row == NewRow(sq + 1, clock, call.arg)
         IN [task |-> tbl \cup {row}, seq |-> sq + 1, err |-> NoError,
             out |-> <<DecodeStrict(row).task>>]
    ELSE [task |-> tbl, seq |-> sq + 1,
          err |-> NewError("insert task", "unique_violation"), out |-> <<>>]

\* The INSERT of a call in flight, run by the database as one statement against
\* the table as it is now.
ExecInsert(tbl, sq, clock, call) == InsertTaskCall(tbl, sq, clock, call.arg)

\* A caller enters InsertTask: the parameters are encoded and the statement is
\* on its way.  free records whether the key was stored when the call began.
InsertBegin(c) ==
    \E t \in TaskInputs :
        /\ calls[c].pc = "idle"
        /\ calls' = [calls EXCEPT ![c] =
                        [pc |-> "sent", arg |-> t,
                         free |-> ~KeyTaken(task, t.Key, 0)]]
        /\ UNCHANGED <<task, seq, now, last, inputOf, pager, hist, exists, jobs>>

\* The database runs the statement and the call returns its row or its error.
InsertEnd(c) ==
    /\ calls[c].pc = "sent"
    /\ seq < MaxId
    /\ LET r == ExecInsert(task, seq, now, calls[c])
       IN /\ task' = r.task
          /\ seq' = r.seq
          /\ calls' = [calls EXCEPT ![c] =
                          [pc |-> "returned", arg |-> calls[c].arg,
                           free |-> calls[c].free, err |-> r.err, out |-> r.out]]
          /\ hist' = Inserted(hist, r)
    /\ UNCHANGED <<now, last, inputOf, pager, exists, jobs>>

\* ------------------------------------------ concurrent updates and deletes
\* INSERT ... ON CONFLICT (rid) DO UPDATE in place of the UPDATE: a row that is
\* gone is made again.
ExecUpdateUpsert(tbl, call) ==
    IF \E r \in tbl : r.rid = call.arg.RID
    THEN UpdateTaskCall(tbl, call.clock, call.arg)
    ELSE LET row == NewRow(call.arg.RID, call.clock, call.arg)
         IN IF KeyTaken(tbl, call.arg.Key, 0)
            THEN [task |-> tbl, err |-> NewError("update task", "unique_violation"),
                  out |-> <<>>]
            ELSE [task |-> tbl \cup {row}, err |-> NoError,
                  out |-> <<DecodeStrict(row).task>>]

\* The UPDATE of a call in flight: one statement, applied by the database to
\* the row as it is when the statement gets the row, with NOW() the time its
\* transaction began.
ExecUpdate(tbl, call) == UpdateTaskCall(tbl, call.clock, call.arg)

\* The DELETE of a call in flight.
ExecDelete(tbl, call) == DeleteTaskCall(tbl, call.arg.RID)

\* The place of the next statement in the order the database applies them.
NextOrd == Cardinality({c \in Callers : calls[c].pc = "returned"}) + 1

\* The external ids the next call may name: the one the calls under way are
\* about, and any stored one when no call has begun.
RaceRids ==
    LET begun == {c \in Callers : calls[c].pc # "idle"}
    IN IF begun = {} THEN {r.rid : r \in task}
       ELSE {calls[c].arg.RID : c \in begun}

\* The callers are alike: they begin in the order of their numbers.
MayBegin(c) ==
    /\ calls[c].pc = "idle"
    /\ \A d \in Callers : d < c => calls[d].pc # "idle"

\* A caller enters UpdateTask: the parameters are encoded, the statement is
\* sent and its transaction begins.
UpdateBegin(c) ==
    \E t \in TaskInputs, rid \in RaceRids :
        /\ MayBegin(c)
        /\ calls' = [calls EXCEPT ![c] =
                        [pc |-> "sent", op |-> "UpdateTask",
                         arg |-> WithRID(t, rid), clock |-> now]]
        /\ UNCHANGED <<task, seq, now, last, inputOf, pager, hist, exists, jobs>>

\* A caller enters DeleteTask.
DeleteBegin(c) ==
    \E rid \in RaceRids :
        /\ MayBegin(c)
        /\ calls' = [calls EXCEPT ![c] =
                        [pc |-> "sent", op |-> "DeleteTask",
                         arg |-> [RID |-> rid], clock |-> now]]
        /\ UNCHANGED <<task, seq, now, last, inputOf, pager, hist, exists, jobs>>

\* The database applies the UPDATE and the call returns.
UpdateEnd(c) ==
    /\ calls[c].pc = "sent"
    /\ calls[c].op = "UpdateTask"
    /\ LET r == ExecUpdate(task, calls[c])
       IN /\ task' = r.task
          /\ calls' = [calls EXCEPT ![c] =
                          [pc |-> "returned", op |-> calls[c].op,
                           arg |-> calls[c].arg, clock |-> calls[c].clock,
                           err |-> r.err, out |-> r.out, ord |-> NextOrd]]
          /\ inputOf' = IF r.err = NoError
                        THEN Forget(inputOf, calls[c].arg.RID) ELSE inputOf
          /\ hist' = Updated(hist, task, calls[c].arg, r)
    /\ UNCHANGED <<seq, now, last, pager, exists, jobs>>

\* The database applies the DELETE and the call returns.
DeleteEnd(c) ==
    /\ calls[c].pc = "sent"
    /\ calls[c].op = "DeleteTask"
    /\ LET r == ExecDelete(task, calls[c])
       IN /\ task' = r.task
          /\ calls' = [calls EXCEPT ![c] =
                          [pc |-> "returned", op |-> calls[c].op,
                           arg |-> calls[c].arg, clock |-> calls[c].clock,
                           err |-> r.err, out |-> <<>>, ord |-> NextOrd]]
          /\ inputOf' = IF r.err = NoError
                        THEN Forget(inputOf, calls[c].arg.RID) ELSE inputOf
          /\ hist' = Deleted(hist, calls[c].arg.RID, r)
    /\ UNCHANGED <<seq, now, last, pager, exists, jobs>>

\* The rows are inserted, each with a key not yet stored, before the callers
\* start.
RaceInsert ==
    \E t \in TaskInputs :
        /\ \A c \in Callers : calls[c].pc = "idle"
        /\ ~KeyTaken(task, t.Key, 0)
        /\ InsertTaskOf(t)

\* ----------------------------------------------- the steps of one INSERT
\* The error of a call whose context (10 s) ran out.
DeadlineExceeded == NewError("insert task", "context deadline exceeded")

\* The statement takes its id: nextval() of the sequence, before the row is
\* visible to any other statement.
InsertTake(c) ==
    /\ calls[c].pc = "sent"
    /\ seq < MaxId
    /\ seq' = seq + 1
    /\ calls' = [calls EXCEPT ![c] =
                    [pc |-> "taken", arg |-> calls[c].arg, free |-> calls[c].free,
                     id |-> seq + 1]]
    /\ UNCHANGED <<task, now, last, inputOf, pager, hist, exists, jobs>>

\* The statement commits: the unique index decides, and the row with the id
\* taken becomes visible.  The answer is on its way to the caller.
InsertCommit(c) ==
    /\ calls[c].pc = "taken"
    /\ LET r == InsertTaskCall(task, calls[c].id - 1, now, calls[c].arg)
       IN /\ task' = r.task
          /\ calls' = [calls EXCEPT ![c] =
                          [pc |-> "committed", arg |-> calls[c].arg,
                           free |-> calls[c].free, id |-> calls[c].id,
                           err |-> r.err, out |-> r.out]]
          /\ hist' = Inserted(hist, r)
          /\ pager' = AfterWrite(pager, task, r.task)
    /\ UNCHANGED <<seq, now, last, inputOf, exists, jobs>>

\* The caller gets the answer.
InsertReturn(c) ==
    /\ calls[c].pc = "committed"
    /\ calls' = [calls EXCEPT ![c].pc = "returned"]
    /\ UNCHANGED <<task, seq, now, last, inputOf, pager, hist, exists, jobs>>

\* The context of the call runs out before the answer is there: the call
\* returns the context's error.  A statement that has not committed is
\* cancelled; one that has committed stays committed.
InsertTimeout(c) ==
    /\ calls[c].pc \in {"sent", "taken", "committed"}
    /\ calls' = [calls EXCEPT ![c] =
                    [pc |-> "returned", arg |-> calls[c].arg,
                     free |-> calls[c].free,
                     id |-> IF calls[c].pc = "sent" THEN 0 ELSE calls[c].id,
                     err |-> DeadlineExceeded, out |-> <<>>]]
    /\ UNCHANGED <<task, seq, now, last, inputOf, pager, hist, exists, jobs>>

\* ------------------------------------------------------------ the schema
\* The connections a handler is constructed with: none, one that answers,
\* and one whose statements all fail.
Connections == {"nil", "open", "closed"}

\* DROP TABLE IF EXISTS task: the table goes with its rows, its sequence and
\* its indexes; no error when there is no table.
DropTableCall(tbl, ex, sq, db) ==
    IF db # "open"
    THEN [task |-> tbl, exists |-> ex, seq |-> sq,
          err |-> NewError("drop task table", "database error")]
    ELSE [task |-> {}, exists |-> FALSE, seq |-> 0, err |-> NoError]

\* CREATE TABLE IF NOT EXISTS task and CREATE INDEX IF NOT EXISTS: a table
\* that exists is left as it is, a new one is empty with a new sequence.
CreateTableReplaces(tbl, ex, sq, db) ==
    IF db # "open"
    THEN [task |-> tbl, exists |-> ex, seq |-> sq,
          err |-> NewError("create task table", "database error")]
    ELSE [task |-> {}, exists |-> TRUE, seq |-> 0, err |-> NoError]

CreateTableCall(tbl, ex, sq, db) ==
    IF db # "open"
    THEN [task |-> tbl, exists |-> ex, seq |-> sq,
          err |-> NewError("create task table", "database error")]
    ELSE [task |-> IF ex THEN tbl ELSE {}, exists |-> TRUE,
          seq |-> IF ex THEN sq ELSE 0, err |-> NoError]

\* NewTaskDBHandler: did is the sequence of schema operations it has called.
NewTaskDBHandlerNoNilCheck(tbl, ex, sq, db, withTableDrop) ==
    LET d == IF withTableDrop THEN DropTableCall(tbl, ex, sq, db)
             ELSE [task |-> tbl, exists |-> ex, seq |-> sq, err |-> NoError]
        c == CreateTableCall(d.task, d.exists, d.seq, db)
        dropped == IF withTableDrop THEN <<"DropTable">> ELSE <<>>
    IN  IF d.err # NoError
        THEN [task |-> d.task, exists |-> d.exists, seq |-> d.seq,
              err |-> NewError("drop table", d.err.cause), did |-> dropped]
        ELSE [task |-> c.task, exists |-> c.exists, seq |-> c.seq,
              err |-> IF c.err # NoError
                      THEN NewError("create table", c.err.cause) ELSE NoError,
              did |-> dropped \o <<"CreateTable">>]

NewTaskDBHandlerCreateFirst(tbl, ex, sq, db, withTableDrop) ==
    LET c == CreateTableCall(tbl, ex, sq, db)
        d == IF withTableDrop THEN DropTableCall(c.task, c.exists, c.seq, db)
             ELSE c
    IN  IF db = "nil"
        THEN [task |-> tbl, exists |-> ex, seq |-> sq,
              err |-> NewError("database connection validation",
                               "database connection is nil"),
              did |-> <<>>]
        ELSE [task |-> d.task, exists |-> d.exists, seq |-> d.seq,
              err |-> IF c.err # NoError THEN NewError("create table", c.err.cause)
                      ELSE IF d.err # NoError
                      THEN NewError("drop table", d.err.cause) ELSE NoError,
              did |-> IF withTableDrop THEN <<"CreateTable", "DropTable">>
                      ELSE <<"CreateTable">>]

NewTaskDBHandlerCall(tbl, ex, sq, db, withTableDrop) ==
    LET d == IF withTableDrop THEN DropTableCall(tbl, ex, sq, db)
             ELSE [task |-> tbl, exists |-> ex, seq |-> sq, err |-> NoError]
        c == CreateTableCall(d.task, d.exists, d.seq, db)
        dropped == IF withTableDrop THEN <<"DropTable">> ELSE <<>>
    IN  IF db = "nil"
        THEN [task |-> tbl, exists |-> ex, seq |-> sq,
              err |-> NewError("database connection validation",
                               "database connection is nil"),
              did |-> <<>>]
        ELSE IF d.err # NoError
        THEN [task |-> d.task, exists |-> d.exists, seq |-> d.seq,
              err |-> NewError("drop table", d.err.cause), did |-> dropped]
        ELSE [task |-> c.task, exists |-> c.exists, seq |-> c.seq,
              err |-> IF c.err # NoError
                      THEN NewError("create table", c.err.cause) ELSE NoError,
              did |-> dropped \o <<"CreateTable">>]

\* What the histories keep when the schema operation has left table r.task:
\* nothing of a table that was dropped.
SchemaStep(r) ==
    /\ task' = r.task
    /\ exists' = r.exists
    /\ seq' = r.seq
    /\ inputOf' = IF r.task = task THEN inputOf ELSE <<>>
    /\ hist' = IF r.task = task /\ r.seq = seq THEN hist
               ELSE [ids |-> <<>>, deleted |-> {}, moved |-> <<>>]
    /\ UNCHANGED <<now, pager, calls, jobs>>

NewTaskDBHandler ==
    \E db \in Connections, withTableDrop \in BOOLEAN :
        LET r == NewTaskDBHandlerCall(task, exists, seq, db, withTableDrop)
        IN  /\ SchemaStep(r)
            /\ last' = [op |-> "NewTaskDBHandler",
                        arg |-> [db |-> db, withTableDrop |-> withTableDrop],
                        err |-> r.err, did |-> r.did]

CreateTable ==
    \E db \in Connections \ {"nil"} :
        LET r == CreateTableCall(task, exists, seq, db)
        IN  /\ SchemaStep(r)
            /\ last' = [op |-> "CreateTable", arg |-> db, err |-> r.err]

DropTable ==
    \E db \in Connections \ {"nil"} :
        LET r == DropTableCall(task, exists, seq, db)
        IN  /\ SchemaStep(r)
            /\ last' = [op |-> "DropTable", arg |-> db, err |-> r.err]

\* CheckTableExistance: whether table task is there.
CheckTableExistance ==
    /\ last' = [op |-> "CheckTableExistance", arg |-> "open", err |-> NoError,
                found |-> exists]
    /\ UNCHANGED <<task, seq, now, inputOf, pager, calls, hist, exists, jobs>>

\* An Insert between schema operations; without the table the statement
\* fails.
SchemaInsert ==
    \E t \in TaskInputs :
        \/ exists /\ InsertTaskOf(t)
        \/ /\ ~exists
           /\ last' = [op |-> "InsertTask", arg |-> t,
                       err |-> NewError("insert task", "relation does not exist"),
                       out |-> <<>>]
           /\ UNCHANGED <<task, seq, now, inputOf, pager, calls, hist, exists,
                          jobs>>

\* ------------------------------------------------------------ the handlers
\* A request body stands for the set of validations its parameters pass.
Requests == SUBSET {V1, V2}

\* The validator's verdict on a request against a list of validations.
Passes(req, validations) ==
    \A i \in 1..Len(validations) : validations[i] \in req

\* ManagerHandler.AddJob: the task is read by key, the request is validated
\* against the task's input parameters and keyed input parameters, and the
\* job is handed to the queue under the key.
AddJobCallSkipsValidation(tbl, q, key, req, queueOk) ==
    LET s == SelectTaskByKeyCall(tbl, key)
    IN  IF s.err # NoError
        THEN [status |-> 404, body |-> "Task not found", jobs |-> q]
        ELSE IF ~queueOk
        THEN [status |-> 500, body |-> "Failed to add job", jobs |-> q]
        ELSE [status |-> 200, body |-> "job", jobs |-> Append(q, key)]

AddJobCall(tbl, q, key, req, queueOk) ==
    LET s == SelectTaskByKeyCall(tbl, key)
        validations == s.out[1].InputParameters.elems
                       \o s.out[1].InputParametersKeyed.elems
    IN  IF s.err # NoError
        THEN [status |-> 404, body |-> "Task not found", jobs |-> q]
        ELSE IF ~Passes(req, validations)
        THEN [status |-> 400, body |-> "Validation error", jobs |-> q]
        ELSE IF ~queueOk
        THEN [status |-> 500, body |-> "Failed to add job", jobs |-> q]
        ELSE [status |-> 200, body |-> "job", jobs |-> Append(q, key)]

AddJob ==
    \E key \in KeyInputs, req \in Requests, queueOk \in BOOLEAN :
        /\ Len(jobs) < MaxJobs
        /\ LET r == AddJobCall(task, jobs, key, req, queueOk)
           IN /\ jobs' = r.jobs
              /\ last' = [op |-> "AddJob", arg |-> [key |-> key, req |-> req],
                          err |-> NoError, status |-> r.status, body |-> r.body]
        /\ UNCHANGED <<task, seq, now, inputOf, pager, calls, hist, exists>>

\* A request names tasks by the text of their RID; BadRid is a text that
\* uuid.Parse rejects.
BadRid == 0
\* The RIDs of a request: the unparsable text, the RIDs of the first two rows
\* and one never handed out.
RequestRids == {BadRid, 1, 2, MaxId + 1}
RidLists == UNION {[1..n -> RequestRids] : n \in 0..MaxBatch}

\* The loop of DeleteTasks over the RIDs left to do: an RID that does not
\* parse and a DeleteTask that fails are noted and the loop goes on.
RECURSIVE DeleteTasksLoopStops(_, _)
DeleteTasksLoopStops(tbl, rids) ==
    IF rids = <<>>
    THEN [task |-> tbl, deletedCount |-> 0, errors |-> <<>>]
    ELSE IF Head(rids) = BadRid
    THEN [task |-> tbl, deletedCount |-> 0, errors |-> <<"Invalid RID">>]
    ELSE LET d == DeleteTaskCall(tbl, Head(rids))
             rest == DeleteTasksLoopStops(d.task, Tail(rids))
         IN IF d.err # NoError
            THEN [task |-> tbl, deletedCount |-> 0,
                  errors |-> <<"Failed to delete task">>]
            ELSE [rest EXCEPT !.deletedCount = @ + 1]

RECURSIVE DeleteTasksLoop(_, _)
DeleteTasksLoop(tbl, rids) ==
    IF rids = <<>>
    THEN [task |-> tbl, deletedCount |-> 0, errors |-> <<>>]
    ELSE IF Head(rids) = BadRid
    THEN [DeleteTasksLoop(tbl, Tail(rids)) EXCEPT
            !.errors = <<"Invalid RID">> \o @]
    ELSE LET d == DeleteTaskCall(tbl, Head(rids))
             rest == DeleteTasksLoop(d.task, Tail(rids))
         IN IF d.err # NoError
            THEN [rest EXCEPT !.errors = <<"Failed to delete task">> \o @]
            ELSE [rest EXCEPT !.deletedCount = @ + 1]

\* ManagerHandler.DeleteTasks
DeleteTasksCall(tbl, rids) ==
    LET l == DeleteTasksLoop(tbl, rids)
    IN  IF rids = <<>>
        THEN [task |-> tbl, status |-> 400, body |-> "Missing task RID",
              deletedCount |-> 0, errors |-> <<>>]
        ELSE [task |-> l.task,
              status |-> IF Len(l.errors) > 0 THEN 206 ELSE 200,
              body |-> IF Len(l.errors) > 0 THEN "Deleted tasks. Errors"
                       ELSE "Successfully deleted task(s)",
              deletedCount |-> l.deletedCount, errors |-> l.errors]

\* The histories after a handler has left table new.
Kept(f, new) == [x \in DOMAIN f \cap {r.rid : r \in new} |-> f[x]]

DeleteTasks ==
    \E rids \in RidLists :
        LET r == DeleteTasksCall(task, rids)
            gone == {x.rid : x \in task \ r.task}
        IN  /\ task' = r.task
            /\ last' = [op |-> "DeleteTasks", arg |-> rids, err |-> NoError,
                        status |-> r.status, body |-> r.body,
                        deletedCount |-> r.deletedCount, errors |-> r.errors]
            /\ inputOf' = Kept(inputOf, r.task)
            /\ pager' = AfterWrite(pager, task, r.task)
            /\ hist' = IF gone = {} THEN hist
                       ELSE [hist EXCEPT !.deleted = @ \cup gone, !.moved = <<>>]
            /\ UNCHANGED <<seq, now, calls, exists, jobs>>

\* The entries of a task file: two tasks and one with an empty key.  An
\* upload or a file is a list of entries, or cannot be read as one.
FileEntries ==
    { PlainTask(<<"a">>, <<"A">>, <<>>),
      PlainTask(<<"b">>, <<"b">>, <<"B", "a">>),
      PlainTask(<<>>, <<"A">>, <<>>) }
Files == UNION {[1..n -> FileEntries] : n \in 0..MaxBatch}
Uploads ==
    {[decoded |-> TRUE, entries |-> f] : f \in Files}
        \cup {[decoded |-> FALSE, entries |-> <<>>]}
\* Ids the sequence may hand out while files are read.
MaxBatchId == 2 * MaxBatch

\* One successful insert, as the loops below note it.
Made(c, entry) == <<[id |-> c.out[1].ID, rid |-> c.out[1].RID, arg |-> entry]>>

\* The result of the loop after the InsertTask of its first entry returned c
\* and the loop over the other entries gave rest.
ImportedStops(c, rest, entry) ==
    IF c.err # NoError
    THEN [task |-> c.task, seq |-> c.seq, importedCount |-> 0,
          errors |-> <<"Failed to import task">>, ins |-> <<>>]
    ELSE [task |-> rest.task, seq |-> rest.seq,
          importedCount |-> rest.importedCount + 1, errors |-> rest.errors,
          ins |-> Made(c, entry) \o rest.ins]

Imported(c, rest, entry) ==
    IF c.err # NoError
    THEN [task |-> rest.task, seq |-> rest.seq,
          importedCount |-> rest.importedCount,
          errors |-> <<"Failed to import task">> \o rest.errors,
          ins |-> rest.ins]
    ELSE [task |-> rest.task, seq |-> rest.seq,
          importedCount |-> rest.importedCount + 1, errors |-> rest.errors,
          ins |-> Made(c, entry) \o rest.ins]

Skipped(rest) ==
    [task |-> rest.task, seq |-> rest.seq, importedCount |-> rest.importedCount,
     errors |-> <<"Skipped task with empty key">> \o rest.errors,
     ins |-> rest.ins]

RECURSIVE ImportTaskLoopStops(_, _, _, _)
RECURSIVE ImportTaskFromStops(_, _, _)
ImportTaskFromStops(c, clock, entries) ==
    ImportedStops(c, ImportTaskLoopStops(c.task, c.seq, clock, Tail(entries)),
                  Head(entries))

ImportTaskLoopStops(tbl, sq, clock, entries) ==
    IF entries = <<>>
    THEN [task |-> tbl, seq |-> sq, importedCount |-> 0, errors |-> <<>>,
          ins |-> <<>>]
    ELSE IF Head(entries).Key = <<>>
    THEN [task |-> tbl, seq |-> sq, importedCount |-> 0,
          errors |-> <<"Skipped task with empty key">>, ins |-> <<>>]
    ELSE ImportTaskFromStops(InsertTaskCall(tbl, sq, clock, Head(entries)),
                             clock, entries)

\* The loop of ImportTask over the entries left to do, in file order: an
\* entry with an empty key is skipped, an InsertTask that fails is noted, and
\* the loop goes on.  ins are the inserts that succeeded, in order.
RECURSIVE ImportTaskLoop(_, _, _, _)
RECURSIVE ImportTaskFrom(_, _, _)
ImportTaskFrom(c, clock, entries) ==
    Imported(c, ImportTaskLoop(c.task, c.seq, clock, Tail(entries)),
             Head(entries))

ImportTaskLoop(tbl, sq, clock, entries) ==
    IF entries = <<>>
    THEN [task |-> tbl, seq |-> sq, importedCount |-> 0, errors |-> <<>>,
          ins |-> <<>>]
    ELSE IF Head(entries).Key = <<>>
    THEN Skipped(ImportTaskLoop(tbl, sq, clock, Tail(entries)))
    ELSE ImportTaskFrom(InsertTaskCall(tbl, sq, clock, Head(entries)),
                        clock, entries)

\* ManagerHandler.ImportTask: decoded says whether the upload was there and
\* was a JSON list of tasks.
ImportTaskCall(tbl, sq, clock, decoded, entries) ==
    LET l == ImportTaskLoop(tbl, sq, clock, entries)
    IN  IF ~decoded
        THEN [task |-> tbl, seq |-> sq, status |-> 400,
              body |-> "Invalid JSON format", importedCount |-> 0,
              errors |-> <<>>, ins |-> <<>>]
        ELSE IF entries = <<>>
        THEN [task |-> tbl, seq |-> sq, status |-> 400,
              body |-> "No tasks found in JSON file", importedCount |-> 0,
              errors |-> <<>>, ins |-> <<>>]
        ELSE [task |-> l.task, seq |-> l.seq,
              status |-> IF Len(l.errors) > 0 THEN 206 ELSE 201,
              body |-> IF Len(l.errors) > 0 THEN "Imported tasks with errors"
                       ELSE "Successfully imported tasks",
              importedCount |-> l.importedCount, errors |-> l.errors,
              ins |-> l.ins]

\* The histories after the inserts ins.
InsertedAll(h, ins) ==
    IF ins = <<>> THEN h
    ELSE [h EXCEPT !.ids = @ \o [i \in 1..Len(ins) |-> ins[i].id],
                   !.moved = <<>>]

InputOfAll(f, ins) ==
    [x \in DOMAIN f \cup {ins[i].rid : i \in 1..Len(ins)} |->
        IF \E i \in 1..Len(ins) : ins[i].rid = x
        THEN (CHOOSE e \in {ins[i] : i \in 1..Len(ins)} : e.rid = x).arg
        ELSE f[x]]

ImportTask ==
    \E up \in Uploads :
        /\ seq + Len(up.entries) <= MaxBatchId
        /\ LET r == ImportTaskCall(task, seq, now, up.decoded, up.entries)
           IN /\ task' = r.task
              /\ seq' = r.seq
              /\ last' = [op |-> "ImportTask",
                          arg |-> up,
                          err |-> NoError, status |-> r.status, body |-> r.body,
                          importedCount |-> r.importedCount,
                          errors |-> r.errors]
              /\ inputOf' = InputOfAll(inputOf, r.ins)
              /\ pager' = AfterWrite(pager, task, r.task)
              /\ hist' = InsertedAll(hist, r.ins)
        /\ UNCHANGED <<now, calls, exists, jobs>>

\* The result of the loop after the InsertTask of its first task returned c
\* and the loop over the other tasks gave rest.
LoadedStops(c, rest, entry) ==
    IF c.err # NoError
    THEN [task |-> c.task, seq |-> c.seq, warned |-> 1, ins |-> <<>>]
    ELSE [task |-> rest.task, seq |-> rest.seq, warned |-> rest.warned,
          ins |-> Made(c, entry) \o rest.ins]

Loaded(c, rest, entry) ==
    IF c.err # NoError
    THEN [task |-> rest.task, seq |-> rest.seq, warned |-> rest.warned + 1,
          ins |-> rest.ins]
    ELSE [task |-> rest.task, seq |-> rest.seq, warned |-> rest.warned,
          ins |-> Made(c, entry) \o rest.ins]

RECURSIVE LoadLoopStops(_, _, _, _)
RECURSIVE LoadFromStops(_, _, _)
LoadFromStops(c, clock, tasks) ==
    LoadedStops(c, LoadLoopStops(c.task, c.seq, clock, Tail(tasks)), Head(tasks))

LoadLoopStops(tbl, sq, clock, tasks) ==
    IF tasks = <<>>
    THEN [task |-> tbl, seq |-> sq, warned |-> 0, ins |-> <<>>]
    ELSE LoadFromStops(InsertTaskCall(tbl, sq, clock, Head(tasks)), clock, tasks)

\* The loop of loadTasksFromJSON: every task of the file is inserted, a
\* failure is logged as a warning and the loop goes on.
RECURSIVE LoadLoop(_, _, _, _)
RECURSIVE LoadFrom(_, _, _)
LoadFrom(c, clock, tasks) ==
    Loaded(c, LoadLoop(c.task, c.seq, clock, Tail(tasks)), Head(tasks))

LoadLoop(tbl, sq, clock, tasks) ==
    IF tasks = <<>>
    THEN [task |-> tbl, seq |-> sq, warned |-> 0, ins |-> <<>>]
    ELSE LoadFrom(InsertTaskCall(tbl, sq, clock, Head(tasks)), clock, tasks)

\* loadTasksFromJSON: decoded says whether the file was read and was a JSON
\* list of tasks; if not, that error is returned and nothing is inserted.
LoadTasksFromJSONCall(tbl, sq, clock, decoded, tasks) ==
    LET l == LoadLoop(tbl, sq, clock, tasks)
    IN  IF ~decoded
        THEN [task |-> tbl, seq |-> sq, err |-> NewError("", "read or unmarshal"),
              warned |-> 0, ins |-> <<>>]
        ELSE [task |-> l.task, seq |-> l.seq, err |-> NoError,
              warned |-> l.warned, ins |-> l.ins]

loadTasksFromJSON ==
    \E up \in Uploads :
        /\ seq + Len(up.entries) <= MaxBatchId
        /\ LET r == LoadTasksFromJSONCall(task, seq, now, up.decoded, up.entries)
           IN /\ task' = r.task
              /\ seq' = r.seq
              /\ last' = [op |-> "loadTasksFromJSON",
                          arg |-> up,
                          err |-> r.err, warned |-> r.warned]
              /\ inputOf' = InputOfAll(inputOf, r.ins)
              /\ pager' = AfterWrite(pager, task, r.task)
              /\ hist' = InsertedAll(hist, r.ins)
        /\ UNCHANGED <<now, calls, exists, jobs>>

\* ------------------------------------------------------ specifications
\* The store used by one caller at a time: writes and single-row reads.
Next ==
    \/ Tick
    \/ InsertTask
    \/ UpdateTask
    \/ DeleteTask
    \/ SelectTask
    \/ SelectTaskByKey

Spec == Init /\ [][Next]_vars

\* ListPage called with any cursor and page size.
NextList == Tick \/ PageInsert \/ DeleteTask \/ SelectAllTasks

SpecList == Init /\ [][NextList]_vars

\* A caller paging through ListPage while rows are inserted and deleted.
NextListPage == PageInsert \/ DeleteTask \/ ListStart \/ PageNext

SpecListPage == Init /\ [][NextListPage]_vars

\* SearchPage called with any query, cursor and page size.
NextSearch == Tick \/ PageInsert \/ DeleteTask \/ SelectAllTasksBySearch

SpecSearch == Init /\ [][NextSearch]_vars

\* A caller paging through SearchPage while rows are inserted.
NextSearchPage == Tick \/ PageInsert \/ SearchStart \/ PageNext

SpecSearchPage == Init /\ [][NextSearchPage]_vars

\* Callers that insert at the same time; nothing else writes.
NextConc == Tick \/ \E c \in Callers : InsertBegin(c) \/ InsertEnd(c)

SpecConc == Init /\ [][NextConc]_vars

\* Callers that update and delete stored rows at the same time.
NextRace ==
    \/ Tick
    \/ RaceInsert
    \/ \E c \in Callers :
          UpdateBegin(c) \/ UpdateEnd(c) \/ DeleteBegin(c) \/ DeleteEnd(c)

SpecRace == Init /\ [][NextRace]_vars

\* Inserts whose context may run out at any point before they return.
NextTimeout ==
    \E c \in Callers :
        \/ InsertBegin(c)
        \/ InsertTake(c)
        \/ InsertCommit(c)
        \/ InsertReturn(c)
        \/ InsertTimeout(c)

SpecTimeout == Init /\ [][NextTimeout]_vars

\* Construction and schema operations around Inserts.
NextSchema ==
    \/ SchemaInsert
    \/ NewTaskDBHandler
    \/ CreateTable
    \/ DropTable
    \/ CheckTableExistance

SpecSchema == Init /\ [][NextSchema]_vars

\* Jobs are added for tasks that are inserted and whose parameter columns
\* may be overwritten from outside.
NextJobs ==
    \/ InsertTask
    \/ Corrupt
    \/ AddJob

SpecJobs == Init /\ [][NextJobs]_vars

\* A caller pages through the list while the Inserts of other callers are
\* under way.
NextListConc ==
    \/ ListStart
    \/ PageNext
    \/ \E c \in Callers :
          \/ InsertBegin(c)
          \/ InsertTake(c)
          \/ InsertCommit(c)
          \/ InsertReturn(c)

SpecListConc == Init /\ [][NextListConc]_vars

\* Searches after a cursor over a few rows that are inserted and deleted.
NextSearchCursor ==
    \/ Tick
    \/ DecodeInsert
    \/ DeleteTask
    \/ SearchAfter

SpecSearchCursor == Init /\ [][NextSearchCursor]_vars

\* Tasks are inserted one by one and deleted by the request.
NextDeleteTasks ==
    \/ InsertTask
    \/ DeleteTasks

SpecDeleteTasks == Init /\ [][NextDeleteTasks]_vars

\* Task files are imported by the handler and loaded at start-up.
NextImport ==
    \/ ImportTask
    \/ loadTasksFromJSON

SpecImport == Init /\ [][NextImport]_vars

\* Reads of rows whose parameter columns were overwritten from outside.
NextDecode ==
    \/ DecodeInsert
    \/ Corrupt
    \/ FirstList
    \/ FirstSearch
    \/ SelectTask
    \/ SelectTaskByKey

SpecDecode == Init /\ [][NextDecode]_vars

\* ================================================================ claims
\* The rows named by a key, and by an external id.
RowsWithKey(key) == {r \in task : r.key = key}
RowsWithRid(rid) == {r \in task : r.rid = rid}

\* Two Go slices hold the same sequence of validations.
SameSeq(a, b) == a.elems = b.elems

\* C1: after any sequence of Insert, Update and Delete calls, successful or
\* failed, no two stored rows have the same key.
C1_KeyUnique == \A r1, r2 \in task : r1.key = r2.key => r1 = r2

\* An insert or update was rejected for its key while another row is stored.
C1_Witness ==
    /\ last.err.cause = "unique_violation"
    /\ Cardinality(task) >= 2

\* C2: an Insert whose key is already stored fails with the conflict error and
\* leaves the rows as they were; an Insert of a key not stored succeeds and adds
\* exactly the one row it returns.  (Only Insert advances the id sequence.)
C2_InsertConflict ==
    [][seq' = seq + 1 =>
         IF RowsWithKey(last'.arg.Key) # {}
         THEN /\ last'.op = "InsertTask"
              /\ last'.err = NewError("insert task", "unique_violation")
              /\ last'.out = <<>>
              /\ task' = task
         ELSE /\ last'.op = "InsertTask"
              /\ last'.err = NoError
              /\ Len(last'.out) = 1
              /\ last'.out[1].Key = last'.arg.Key
              /\ \E r \in task' : /\ r.rid = last'.out[1].RID
                                  /\ r.key = last'.arg.Key
                                  /\ r \notin task
                                  /\ task' = task \cup {r}]_vars

\* The second Insert of a key was rejected and the first row is still stored.
C2_Witness ==
    /\ last.op = "InsertTask"
    /\ last.err = NewError("insert task", "unique_violation")
    /\ RowsWithKey(last.arg.Key) # {}

\* The calls of one key that began while no row held the key: they all run at
\* the same time as the one that is executed first.
Racing(key) ==
    {c \in Callers : calls[c].pc # "idle" /\ calls[c].arg.Key = key /\ calls[c].free}

Conflict == NewError("insert task", "unique_violation")

\* C3: of the Insert calls of one key that run at the same time against a store
\* without that key, never more than one returns a row; once all have returned
\* exactly one has, every other one has failed with the conflict error, and
\* exactly one row with the key is stored.
C3_OneWinner ==
    \A key \in KeyInputs :
        LET G == Racing(key)
            won == {c \in G : calls[c].pc = "returned" /\ calls[c].err = NoError}
        IN /\ Cardinality(won) <= 1
           /\ (G # {} /\ \A c \in G : calls[c].pc = "returned") =>
                /\ Cardinality(won) = 1
                /\ \A c \in G \ won : calls[c].err = Conflict /\ calls[c].out = <<>>
                /\ \A c \in won : Len(calls[c].out) = 1
                                  /\ calls[c].out[1].Key = key
                /\ Cardinality(RowsWithKey(key)) = 1

\* Two calls of one key ran at the same time and both have returned.
C3_Witness ==
    \E key \in KeyInputs :
        /\ Cardinality(Racing(key)) >= 2
        /\ \A c \in Racing(key) : calls[c].pc = "returned"

\* C6: ListPage(after, n) returns, without error, the rows with the n smallest
\* sequential_id values greater than after (all of them when there are fewer),
\* in ascending order of sequential_id.
C6_ListPage ==
    last.op = "SelectAllTasks" =>
        LET after == last.arg.lastID
            n == last.arg.entries
            out == last.out
            later == {r \in task : r.id > after}
            ids == {out[i].ID : i \in 1..Len(out)}
        IN /\ last.err = NoError
           /\ Len(out) = Min(n, Cardinality(later))
           /\ \A i \in 1..Len(out) :
                \E r \in later : /\ r.id = out[i].ID
                                 /\ r.rid = out[i].RID
                                 /\ r.key = out[i].Key
           /\ \A i, j \in 1..Len(out) : i < j => out[i].ID < out[j].ID
           /\ \A r \in later : r.id \notin ids => \A i \in ids : i < r.id

\* A page was cut to n rows, after a cursor that is not the start.
C6_Witness ==
    /\ last.op = "SelectAllTasks"
    /\ last.arg.lastID > 0
    /\ Len(last.out) = last.arg.entries
    /\ Cardinality({r \in task : r.id > last.arg.lastID}) > last.arg.entries

ContainsFold(s, q) ==
    \E off \in 0..(Len(s) - Len(q)) :
        \A k \in 1..Len(q) : Lower(s[off + k]) = Lower(q[k])

\* C8: SearchPage(q, 0, N) returns at most N rows, each with q as a
\* case-insensitive substring of its external_id text, key, name or
\* description, in descending order of created_at.
C8_SearchSubstring ==
    (last.op = "SelectAllTasksBySearch" /\ last.arg.lastID = 0) =>
        LET q == last.arg.search
            out == last.out
        IN /\ Len(out) <= last.arg.entries
           /\ \A i \in 1..Len(out) :
                \/ ContainsFold(RidText(out[i].RID), q)
                \/ ContainsFold(out[i].Key, q)
                \/ ContainsFold(out[i].Name, q)
                \/ ContainsFold(out[i].Description, q)
           /\ \A i, j \in 1..Len(out) : i < j => out[i].CreatedAt >= out[j].CreatedAt

\* C9: a traversal of SearchPage that has reached its end has returned every
\* row that matched the query from its first page to its last, each on exactly
\* one page.
C9_SearchTraversalComplete ==
    (pager.pc = "done" /\ pager.kind = "search") =>
        LET pages == pager.pages
            at == {<<p, i>> : p \in 1..Len(pages), i \in 1..MaxPage}
            seen == {pi \in {<<pg[1], pg[2]>> : pg \in at} : pi[2] <= Len(pages[pi[1]])}
        IN /\ \A id \in pager.tracked : \E pi \in seen : pages[pi[1]][pi[2]].ID = id
           /\ \A a, b \in seen : pages[a[1]][a[2]].ID = pages[b[1]][b[2]].ID => a = b

\* C4: GetByExternalId of a row that was inserted and not written since succeeds
\* and returns the key, name, description and the three parameter sequences the
\* Insert was given, with a non-empty external_id and sequential_id > 0.
C4_RoundTrip ==
    (last.op = "SelectTask" /\ last.arg \in DOMAIN inputOf) =>
        /\ last.err = NoError
        /\ Len(last.out) = 1
        /\ LET r == last.out[1]
               t == inputOf[last.arg]
           IN /\ r.RID = last.arg
              /\ r.Key = t.Key
              /\ r.Name = t.Name
              /\ r.Description = t.Description
              /\ SameSeq(r.InputParameters, t.InputParameters)
              /\ SameSeq(r.InputParametersKeyed, t.InputParametersKeyed)
              /\ SameSeq(r.OutputParameters, t.OutputParameters)
              /\ r.RID # 0
              /\ r.ID > 0

\* A task with two, no and one parameter in its three sequences was read back.
C4_Witness ==
    /\ last.op = "SelectTask"
    /\ last.arg \in DOMAIN inputOf
    /\ Len(inputOf[last.arg].InputParameters.elems) = 2
    /\ Len(inputOf[last.arg].OutputParameters.elems) = 1

\* C5: a row inserted with a parameter sequence absent is read back with that
\* sequence empty and not null, by every operation that returns the row.
C5_AbsentReadsEmpty ==
    \A i \in 1..Len(last.out) :
        LET r == last.out[i]
        IN r.RID \in DOMAIN inputOf =>
             LET t == inputOf[r.RID]
             IN /\ t.InputParameters.isNil => r.InputParameters = Slice(<<>>)
                /\ t.InputParametersKeyed.isNil => r.InputParametersKeyed = Slice(<<>>)
                /\ t.OutputParameters.isNil => r.OutputParameters = Slice(<<>>)

\* C10: an Update fails with "task not found" exactly when no row has the given
\* external_id, and then leaves every row as it was; the unique-key failure of
\* an Update carries another text.
C10_UpdateNotFound ==
    [][(last' # last /\ last'.op = "UpdateTask") =>
         /\ (RowsWithRid(last'.arg.RID) = {}) <=> (last'.err.trace = "task not found")
         /\ RowsWithRid(last'.arg.RID) = {} => (task' = task /\ last'.out = <<>>)]_vars

\* An Update named an external id that no row has, while rows are stored.
C10_Witness ==
    /\ last.op = "UpdateTask"
    /\ last.err.trace = "task not found"
    /\ RowsWithRid(last.arg.RID) = {}
    /\ task # {}

\* C11: a successful Update replaces key, name, description and the three
\* parameter sequences of the row with the given external_id by the values
\* supplied (as the call returns them and as GetByExternalId reads them back),
\* leaves the row's sequential_id, external_id and created_at as they were, and
\* changes no other row.
C11_UpdateFrame ==
    [][(last' # last /\ last'.op = "UpdateTask" /\ last'.err = NoError) =>
         LET t == last'.arg
             got == SelectTaskCall(task', t.RID)
         IN /\ Len(last'.out) = 1
            /\ got.err = NoError
            /\ got.out = last'.out
            /\ got.out[1].Key = t.Key
            /\ got.out[1].Name = t.Name
            /\ got.out[1].Description = t.Description
            /\ SameSeq(got.out[1].InputParameters, t.InputParameters)
            /\ SameSeq(got.out[1].InputParametersKeyed, t.InputParametersKeyed)
            /\ SameSeq(got.out[1].OutputParameters, t.OutputParameters)
            /\ \E old \in task, new \in task' :
                  /\ old.rid = t.RID
                  /\ new.rid = t.RID
                  /\ new.id = old.id
                  /\ new.created_at = old.created_at
                  /\ new.key = t.Key
                  /\ new.name = t.Name
                  /\ new.description = t.Description
                  /\ task' \ {new} = task \ {old}]_vars

\* An Update replaced the fields of a row at a later time than its Insert, with
\* another row stored.
C11_Witness ==
    /\ last.op = "UpdateTask"
    /\ last.err = NoError
    /\ Cardinality(task) >= 2
    /\ last.out[1].UpdatedAt > last.out[1].CreatedAt
    /\ Len(last.out[1].InputParameters.elems) = 2

\* C12: an Update that would give a row the key of a different stored row
\* fails with the conflict error and leaves every row as it was, the updated_at
\* of the target row included.
C12_UpdateKeyConflict ==
    [][(/\ last' # last
        /\ last'.op = "UpdateTask"
        /\ RowsWithRid(last'.arg.RID) # {}
        /\ \E o \in task : o.key = last'.arg.Key /\ o.rid # last'.arg.RID) =>
         /\ last'.err = NewError("update task", "unique_violation")
         /\ last'.out = <<>>
         /\ task' = task]_vars

\* An Update was rejected for the key of another row, at a later time than the
\* last write of its target row.
C12_Witness ==
    /\ last.op = "UpdateTask"
    /\ last.err = NewError("update task", "unique_violation")
    /\ \E r \in RowsWithRid(last.arg.RID) :
          /\ r.key # last.arg.Key
          /\ r.updated_at < now
          /\ \E o \in RowsWithKey(last.arg.Key) : o.rid # r.rid

\* C13: after a successful Update has changed a task's key from a to b, and
\* until the next write, GetByKey(a) fails with "task not found" and GetByKey(b)
\* returns the row with the external_id the task had before.
C13_UpdateKeyChange ==
    (last.op = "SelectTaskByKey" /\ hist.moved # <<>>) =>
        LET m == hist.moved[1]
        IN /\ last.arg = m.from =>
                 (last.err.trace = "task not found" /\ last.out = <<>>)
           /\ last.arg = m.to =>
                 /\ last.err = NoError
                 /\ Len(last.out) = 1
                 /\ last.out[1].RID = m.rid
                 /\ last.out[1].Key = m.to

\* GetByKey was called with the old key of a task whose key an Update changed,
\* while another row is stored.
C13_Witness ==
    /\ last.op = "SelectTaskByKey"
    /\ hist.moved # <<>>
    /\ last.arg = hist.moved[1].from
    /\ last.err.trace = "task not found"
    /\ RowsWithKey(hist.moved[1].to) # {}

\* C14: every successful Update returns a row whose updated_at is strictly
\* later than the updated_at the row had before that Update, the one assigned by
\* its Insert included.
C14_UpdatedAtLater ==
    [][(last' # last /\ last'.op = "UpdateTask" /\ last'.err = NoError) =>
         \A r \in RowsWithRid(last'.arg.RID) :
             last'.out[1].UpdatedAt > r.updated_at]_vars

\* C15: every stored row has updated_at >= created_at, and no write changes
\* the created_at of a row that is already stored.
C15_Timestamps ==
    [][/\ \A r \in task' : r.updated_at >= r.created_at
       /\ \A r \in task, n \in task' :
             n.rid = r.rid => n.created_at = r.created_at]_vars

\* An Update at a later time than the Insert has moved updated_at of a row past
\* its created_at.
C15_Witness ==
    /\ last.op = "UpdateTask"
    /\ last.err = NoError
    /\ \E r \in RowsWithRid(last.arg.RID) :
          r.updated_at > r.created_at /\ r.created_at < now

\* The external id was given to a row by some successful Insert (a row gets the
\* external id of its sequential id here).
EverStored(rid) == \E i \in 1..Len(hist.ids) : hist.ids[i] = rid

\* C16: a successful Delete(id) removes the row; from then on GetByExternalId(id)
\* and every further Delete(id) fail with "task not found"; Delete of an
\* external_id that was never stored fails the same way; a failed Delete leaves
\* every row as it was.
C16_DeleteNotFound ==
    [][last' # last =>
         /\ (last'.op = "DeleteTask" /\ last'.err = NoError) =>
               /\ RowsWithRid(last'.arg) # {}
               /\ task' = task \ RowsWithRid(last'.arg)
         /\ (last'.op = "SelectTask" /\ last'.arg \in hist.deleted) =>
               (last'.err.trace = "task not found" /\ last'.out = <<>>)
         /\ (last'.op = "DeleteTask"
              /\ (last'.arg \in hist.deleted \/ ~EverStored(last'.arg))) =>
               (last'.err.trace = "task not found" /\ task' = task)]_vars

\* A second Delete of a deleted external id has failed while a row is stored.
C16_Witness ==
    /\ last.op = "DeleteTask"
    /\ last.arg \in hist.deleted
    /\ last.err.trace = "task not found"
    /\ task # {}

\* C17: over any sequence of Insert, Update and Delete calls the sequential ids
\* returned by the successful Inserts are strictly increasing in the order of
\* the calls, the ids of rows deleted since included.
C17_IdsIncrease ==
    \A i, j \in 1..Len(hist.ids) : i < j => hist.ids[i] < hist.ids[j]

\* An Insert has succeeded after every row stored before it was deleted.
C17_Witness ==
    /\ last.op = "InsertTask"
    /\ last.err = NoError
    /\ Cardinality(task) = 1
    /\ \E d \in hist.deleted : d < last.out[1].ID

\* The calls on one external id that have returned.
RaceOn(rid) ==
    {c \in Callers : calls[c].pc = "returned" /\ calls[c].arg.RID = rid}

\* The row holds the six fields a write was given.
Carries(r, t) ==
    /\ r.key = t.Key
    /\ r.name = t.Name
    /\ r.description = t.Description
    /\ r.input_parameters = Marshal(t.InputParameters)
    /\ r.input_parameters_keyed = Marshal(t.InputParametersKeyed)
    /\ r.output_parameters = Marshal(t.OutputParameters)

\* C18: when the Update and Delete calls that ran at the same time on one
\* external_id have all returned, the state is that of the calls run one after
\* the other in some order: at most one Delete succeeded; if one did, the row is
\* absent and every call applied after it failed with "task not found"; if none
\* did, the row carries all six fields and the time of the successful Update
\* applied last (of the Insert when no Update succeeded).
C18_LastWriterWins ==
    \A rid \in Rids :
        LET G == RaceOn(rid)
            dels == {c \in G : calls[c].op = "DeleteTask" /\ calls[c].err = NoError}
            ups == {c \in G : calls[c].op = "UpdateTask" /\ calls[c].err = NoError}
        IN ((\A c \in Callers : calls[c].pc # "sent") /\ G # {}) =>
             /\ Cardinality(dels) <= 1
             /\ Cardinality(RowsWithRid(rid)) <= 1
             /\ dels # {} =>
                   /\ RowsWithRid(rid) = {}
                   /\ \A c \in G, d \in dels :
                         calls[c].ord > calls[d].ord =>
                             /\ calls[c].err.trace = "task not found"
                             /\ calls[c].out = <<>>
             /\ dels = {} =>
                   \E r \in RowsWithRid(rid) :
                       IF ups = {} THEN Carries(r, inputOf[rid])
                       ELSE \E w \in ups :
                              /\ \A c \in ups : calls[c].ord <= calls[w].ord
                              /\ Carries(r, calls[w].arg)
                              /\ r.updated_at = calls[w].clock

\* Two calls ran at the same time on one external id, and an Update was applied
\* after the other call had succeeded although its transaction began no later.
C18_Witness ==
    \E c, d \in Callers :
        /\ c # d
        /\ \A e \in Callers : calls[e].pc # "sent"
        /\ calls[c].pc = "returned"
        /\ calls[d].pc = "returned"
        /\ calls[c].arg.RID = calls[d].arg.RID
        /\ calls[c].op = "UpdateTask"
        /\ calls[d].err = NoError
        /\ calls[d].ord < calls[c].ord
        /\ calls[c].clock <= calls[d].clock

\* The stored document decodes into a sequence of validations.
Decodable(doc) == doc.kind \in {"null", "array"}

\* The field a list operation returns for a stored column.
ListedAs(field, doc) ==
    IF Decodable(doc) THEN field = Unmarshal(doc, NilSlice).val
    ELSE field = Slice(<<>>)

\* The rows the last list call selects.
Selected ==
    IF last.op = "SelectAllTasks"
    THEN {r \in task : r.id > last.arg.lastID}
    ELSE {r \in task : SearchMatch(r, last.arg.search)
                        /\ BeforeCursor(task, r, last.arg.lastID)}

\* C19: ListPage and SearchPage return no error when a stored parameter
\* sequence cannot be decoded: the page holds as many rows as the query selects
\* (up to the page size), the undecodable field of a row is an empty sequence,
\* and every other field of that row and of the other rows is as stored.
C19_ListDecodeLenient ==
    last.op \in {"SelectAllTasks", "SelectAllTasksBySearch"} =>
        /\ last.err = NoError
        /\ Len(last.out) = Min(last.arg.entries, Cardinality(Selected))
        /\ \A i, j \in 1..Len(last.out) : i # j => last.out[i].ID # last.out[j].ID
        /\ \A i \in 1..Len(last.out) :
              LET o == last.out[i]
              IN \E r \in Selected :
                    /\ o.ID = r.id
                    /\ o.RID = r.rid
                    /\ o.Key = r.key
                    /\ o.Name = r.name
                    /\ o.Description = r.description
                    /\ o.CreatedAt = r.created_at
                    /\ o.UpdatedAt = r.updated_at
                    /\ ListedAs(o.InputParameters, r.input_parameters)
                    /\ ListedAs(o.InputParametersKeyed, r.input_parameters_keyed)
                    /\ ListedAs(o.OutputParameters, r.output_parameters)

\* A search returned a page of two rows, one of them with an undecodable
\* column next to a column that holds a validation.
C19_Witness ==
    /\ last.op = "SelectAllTasksBySearch"
    /\ Len(last.out) = 2
    /\ \E i \in 1..2 : \E r \in task :
          /\ r.id = last.out[i].ID
          /\ r.input_parameters = NotArray
          /\ last.out[i].InputParameters = Slice(<<>>)
          /\ last.out[i].InputParametersKeyed = Slice(<<V1>>)

\* The row a single-row read names.
Named ==
    IF last.op = "SelectTask" THEN RowsWithRid(last.arg) ELSE RowsWithKey(last.arg)

\* C20: GetByExternalId and GetByKey of a row with a stored parameter sequence
\* that cannot be decoded fail with an error other than "task not found" and
\* return no row; a row they return has every parameter field as decoded from
\* its column.
C20_GetDecodeStrict ==
    last.op \in {"SelectTask", "SelectTaskByKey"} =>
        \A r \in Named :
            IF \E col \in Columns : ~Decodable(r[col])
            THEN /\ last.err # NoError
                 /\ last.err.trace # "task not found"
                 /\ last.out = <<>>
            ELSE /\ last.err = NoError
                 /\ Len(last.out) = 1
                 /\ last.out[1].InputParameters =
                        Unmarshal(r.input_parameters, NilSlice).val
                 /\ last.out[1].InputParametersKeyed =
                        Unmarshal(r.input_parameters_keyed, NilSlice).val
                 /\ last.out[1].OutputParameters =
                        Unmarshal(r.output_parameters, NilSlice).val

\* GetByKey named a row whose output_parameters column cannot be decoded, with
\* another row stored.
C20_Witness ==
    /\ last.op = "SelectTaskByKey"
    /\ last.err.trace = "unmarshal output_parameters"
    /\ \E r \in RowsWithKey(last.arg) : r.output_parameters = NotArray
    /\ Cardinality(task) >= 2

\* C21 (the part about writes): an Insert that has returned the timeout error
\* has left the store as it was, that is, no row carries the id its statement
\* took.
C21_TimeoutLeavesStore ==
    \A c \in Callers :
        (calls[c].pc = "returned" /\ calls[c].err = DeadlineExceeded) =>
            ~\E r \in task : r.id = calls[c].id

\* C22: a handler constructed with no database connection fails with the
\* error "database connection is nil" and has called neither DropTable nor
\* CreateTable: the table and its rows are as before.
C22_NilConnection ==
    [][(last'.op = "NewTaskDBHandler" /\ last'.arg.db = "nil") =>
          /\ last'.err = NewError("database connection validation",
                                  "database connection is nil")
          /\ last'.did = <<>>
          /\ task' = task /\ exists' = exists /\ seq' = seq]_vars

C22_NilConnection_Witness ==
    /\ last.op = "NewTaskDBHandler"
    /\ last.arg.db = "nil"
    /\ last.arg.withTableDrop
    /\ task # {}

\* C23: a construction that succeeds with the reset flag has called DropTable
\* and then CreateTable, and the table exists and is empty; one that succeeds
\* without the flag has called CreateTable only, the table exists and the
\* rows stored before are stored unchanged.
C23_ResetFlag ==
    [][(last'.op = "NewTaskDBHandler" /\ last'.err = NoError) =>
          IF last'.arg.withTableDrop
          THEN /\ last'.did = <<"DropTable", "CreateTable">>
               /\ exists' /\ task' = {}
          ELSE /\ last'.did = <<"CreateTable">>
               /\ exists' /\ task' = task]_vars

C23_ResetFlag_Witness ==
    /\ last.op = "NewTaskDBHandler"
    /\ last.err = NoError
    /\ ~last.arg.withTableDrop
    /\ Cardinality(task) = 2

\* C24: while the database answers, CreateTable returns no error and leaves
\* the rows of a table that exists unchanged, DropTable returns no error also
\* when there is no table, and CheckTableExistance called next reports true
\* after CreateTable and false after DropTable.
C24_SchemaIdempotent ==
    [][/\ (last'.op = "CreateTable" /\ last'.arg = "open") =>
            /\ last'.err = NoError
            /\ exists'
            /\ exists => (task' = task /\ seq' = seq)
       /\ (last'.op = "DropTable" /\ last'.arg = "open") =>
            /\ last'.err = NoError
            /\ ~exists'
       /\ (last'.op = "CheckTableExistance" /\ last.err = NoError) =>
            /\ last.op = "CreateTable" => last'.found
            /\ last.op = "DropTable" => ~last'.found]_vars

C24_SchemaIdempotent_Witness ==
    /\ last.op = "CreateTable"
    /\ last.err = NoError
    /\ task # {}

\* C25: AddJob hands a job to the queue only when a task with the requested
\* key is stored and the request passes the validations of that task; for a
\* key with no stored task it answers 404 "Task not found" and adds no job;
\* when it succeeds it has added exactly one job, named by the requested key.
C25_AddJob ==
    [][last'.op = "AddJob" =>
          LET key == last'.arg.key
              hit == {r \in task : r.key = key}
          IN  /\ jobs' # jobs =>
                    \E r \in hit :
                        /\ \A col \in Columns : Decodable(r[col])
                        /\ Passes(last'.arg.req,
                                  r.input_parameters.elems
                                  \o r.input_parameters_keyed.elems)
              /\ hit = {} =>
                    /\ last'.status = 404
                    /\ last'.body = "Task not found"
                    /\ jobs' = jobs
              /\ last'.status = 200 <=> jobs' # jobs
              /\ jobs' # jobs => jobs' = Append(jobs, key)]_vars

C25_AddJob_Witness ==
    /\ last.op = "AddJob"
    /\ last.status = 200
    /\ \E r \in task : r.key = last.arg.key /\ r.input_parameters.elems # <<>>
    /\ jobs = <<last.arg.key>>

\* C26: when a traversal of the list by last id seen reaches its empty page,
\* the row of every Insert that had returned successfully before that page
\* was fetched is on exactly one of the pages.
C26_NoRowSkipped ==
    [][(pager'.pc = "done" /\ pager.pc # "done" /\ pager'.kind = "list") =>
          \A c \in Callers :
              (calls[c].pc = "returned" /\ calls[c].err = NoError) =>
                  Cardinality({x \in {<<p, i>> : p \in 1..Len(pager'.pages),
                                                i \in 1..MaxPage} :
                                 /\ x[2] <= Len(pager'.pages[x[1]])
                                 /\ pager'.pages[x[1]][x[2]].ID = calls[c].id}) = 1]_vars

\* C27: a search whose cursor is not 0 and is the sequential id of no stored
\* row (never handed out, or of a row deleted since) returns an empty page
\* and no error, whatever rows match the query.
C27_MissingCursor ==
    (/\ last.op = "SelectAllTasksBySearch"
     /\ last.arg.lastID # 0
     /\ ~\E r \in task : r.id = last.arg.lastID) =>
        /\ last.err = NoError
        /\ last.out = <<>>

\* The cursor row was deleted and a row that matches the query is stored.
C27_MissingCursor_Witness ==
    /\ last.op = "SelectAllTasksBySearch"
    /\ last.arg.lastID \in hist.deleted
    /\ last.out = <<>>
    /\ \E r \in task : SearchMatch(r, last.arg.search)

FirstEntry(entries, key) ==
    CHOOSE i \in 1..Len(entries) :
        /\ entries[i].Key = key
        /\ \A k \in 1..(i - 1) : entries[k].Key # key

C30_LoadTasks ==
    [][(/\ last'.op = "loadTasksFromJSON" /\ seq' # seq) =>
          LET tasks == last'.arg.entries
          IN  /\ last'.err = NoError
              /\ task \subseteq task'
              /\ \A i \in 1..Len(tasks) :
                    \E r \in task' : r.key = tasks[i].Key
              /\ Cardinality(task') - Cardinality(task)
                    = Len(tasks) - last'.warned
              /\ (/\ last.op = "loadTasksFromJSON"
                  /\ last.err = NoError
                  /\ last.arg.entries = tasks) => task' = task]_vars

\* The second run with a file of two tasks: both stored as the first run made
\* them, both refused.
C30_LoadTasks_Witness ==
    /\ last.op = "loadTasksFromJSON"
    /\ Len(last.arg.entries) = 2
    /\ last.arg.entries[1].Key # last.arg.entries[2].Key
    /\ last.warned = 2
    /\ seq = 4
    /\ hist.ids = <<1, 2>>
    /\ \A i \in 1..2 :
          \E r \in task : r = NewRow(i, r.created_at, last.arg.entries[i])
====
